---- MODULE Spec2Model ----
(***************************************************************************)
(* The route optimizer of the tour planner: backend/agent/optimization.py  *)
(* (OptimizationAgent) with the schema it instantiates                     *)
(* (backend/models/schemas.py).                                            *)
(*                                                                         *)
(* Numbers.  Money is counted in half currency units, so that the          *)
(* catalog's cost_per_km of 0, 2 and 0.5 become 0, 4 and 1 and every cost  *)
(* is an integer.  Coordinates are taken from a 3-4-5 rectangle, so every  *)
(* distance ((dlat^2 + dlon^2) ** 0.5) is an exact integer float, and the  *)
(* three speeds divide 60, so every travel time is an exact float too.     *)
(* A float is carried as its integer value plus the flag time_is_float.    *)
(*                                                                         *)
(* Calls.  A call is one of three methods of OptimizationAgent, named in   *)
(* entry: optimize_route on a request, _calculate_optimal_path on a graph  *)
(* handed in by the caller, _assign_time_slots on a path handed in by the  *)
(* caller.  Two calls (Runs) are made on the same input; the two calls of   *)
(* optimize_route may differ in their budgets, the second being at least   *)
(* as large as the first.                                                  *)
(*                                                                         *)
(* Two more methods stand beside the optimizer:                            *)
(* ItineraryGenerationAgent.generate_itinerary (itinerary_generation.py),  *)
(* called twice like the others, and UserInteractionAgent.process_user_    *)
(* input (user_interaction.py), called once per turn of a chat, the caller *)
(* handing each response's context to the next call.  Both talk to the     *)
(* database of neo4j_client.py, of which the model keeps the user's node,  *)
(* the user's preferences and the itineraries created.  The database and   *)
(* the language model are taken to be reachable.                           *)
(***************************************************************************)
EXTENDS Integers, Sequences, FiniteSets, TLC

\* ---- bounds of the model
MaxStops == 2
MaxDist == 2
MaxFare == 1
MaxBudget == 2
MaxPath == 2
MaxTurns == 2

Runs == {1, 2}

VARIABLES
    entry,            \* the method called: its name
    stops,            \* optimize_route: the stops' locations, in order
    starting_point,   \* optimize_route: <<>> (None) or <<Location>>
    start_time,       \* the window, as datetime.time
    end_time,
    time_is_float,    \* the segments' times are Python floats
    budget,           \* budget[r] of call r
    pc,               \* where call r stands
    raised,           \* the exception call r ended with, "none" if none
    G,                \* travel graph of call r
    hash_order,       \* iteration order of call r's set remaining_nodes
    optimal_path,     \* _calculate_optimal_path's optimal_path / the path
    current_node,
    remaining_nodes,
    current_cost,
    current_time,     \* _assign_time_slots
    end_minutes,
    segment_index,    \* position of the for loop over path
    scheduled_stops,
    total_cost,
    city,             \* generate_itinerary: the request's city and interests
    interests,
    db_user,          \* the database holds a User node for user_id
    db_preferences,   \* the preference types stored for the user
    db_itineraries,   \* the Itinerary nodes created, in order
    attractions,      \* generate_itinerary's locals, per call
    optimized_stops,
    itinerary,
    context,          \* process_user_input: the context the caller passes
    extracted_info,   \* the keys of the last call's extracted_info
    next_required_info,
    response_message, \* which of the messages the last call answered with
    turn              \* the number of calls made in the chat

vars == <<entry, stops, starting_point, start_time, end_time, time_is_float,
          budget, pc, raised, G, hash_order, optimal_path, current_node,
          remaining_nodes, current_cost, current_time, end_minutes,
          segment_index, scheduled_stops, total_cost, city, interests,
          db_user, db_preferences, db_itineraries, attractions,
          optimized_stops, itinerary, context, extracted_info,
          next_required_info, response_message, turn>>

database == <<db_user, db_preferences, db_itineraries>>
generate_locals == <<attractions, optimized_stops, itinerary>>
chat == <<context, extracted_info, next_required_info, response_message,
          turn>>
assistant == <<city, interests, database, generate_locals, chat>>

inputs == <<entry, stops, starting_point, start_time, end_time,
            time_is_float, budget>>
path_locals == <<hash_order, current_node, remaining_nodes, current_cost>>
slot_locals == <<current_time, end_minutes, segment_index, scheduled_stops>>

Range(s) == {s[i] : i \in DOMAIN s}

RECURSIVE Perms(_)
Perms(S) ==
    IF S = {} THEN {<<>>}
    ELSE UNION {{<<x>> \o p : p \in Perms(S \ {x})} : x \in S}

\* ---- schemas.py

\* Location: name and coordinates (the address plays no part in routing).
Location(name, lat, lon) == [name |-> name, coordinates |-> <<lat, lon>>]

\* The fields ItineraryStop declares without a default: the constructor
\* raises ValidationError unless every one of them is given.
ItineraryStopRequired ==
    {"location", "start_time", "end_time", "activity_type", "cost", "status"}

\* ItineraryStop(**fields): the outcome of the constructor's validation.
\* location must be a Location (a value with a name and coordinates).
ItineraryStopAccepts(fields, location_is_model) ==
    /\ ItineraryStopRequired \subseteq fields
    /\ location_is_model

\* datetime.time as [hour, minute]
Time(h, m) == [hour |-> h, minute |-> m]

\* ---- OptimizationAgent.__init__: the transport catalog, in insertion order

ModeOrder == <<"walking", "taxi", "public_transport">>

transport_modes ==
    [walking          |-> [cost_per_km |-> 0, speed_kmh |-> 4],
     taxi             |-> [cost_per_km |-> 4, speed_kmh |-> 30],
     public_transport |-> [cost_per_km |-> 1, speed_kmh |-> 20]]

\* ---- _calculate_distance

Isqrt(n) == CHOOSE k \in 0..n : k * k <= n /\ n < (k + 1) * (k + 1)

calculate_distance_unsquared(loc1, loc2) ==
    (loc2.coordinates[1] - loc1.coordinates[1])
        + (loc2.coordinates[2] - loc1.coordinates[2])

calculate_distance(loc1, loc2) ==
    LET lat1 == loc1.coordinates[1]
        lon1 == loc1.coordinates[2]
        lat2 == loc2.coordinates[1]
        lon2 == loc2.coordinates[2]
    IN  Isqrt((lat2 - lat1) * (lat2 - lat1) + (lon2 - lon1) * (lon2 - lon1))

\* ---- networkx.Graph as the code uses it

\* An empty graph: nodes in insertion order, adj[<<u, v>>] the attribute
\* dictionary of edge u-v (one dictionary per edge, stored under both
\* directions).
EmptyGraph == [nodes |-> <<>>, adj |-> <<>>]

HasEdge(graph, u, v) == <<u, v>> \in DOMAIN graph.adj

\* G.add_edge(u, v, **attr): add the missing nodes, then update the edge's
\* one attribute dictionary with attr (given keys overwrite).
add_edge(graph, u, v, attr) ==
    LET n1 == IF u \in Range(graph.nodes) THEN graph.nodes
              ELSE Append(graph.nodes, u)
        n2 == IF v \in Range(n1) THEN n1 ELSE Append(n1, v)
        old == IF HasEdge(graph, u, v) THEN graph.adj[<<u, v>>] ELSE <<>>
        datadict == attr @@ old
    IN  [nodes |-> n2,
         adj   |-> (<<u, v>> :> datadict) @@ (<<v, u>> :> datadict)
                       @@ graph.adj]

\* ---- _create_travel_graph

Reverse(s) == [k \in 1..Len(s) |-> s[Len(s) + 1 - k]]

LocationsReversed(stop_list, start) == Reverse(start \o stop_list)

\* locations (line 41)
Locations(stop_list, start) == start \o stop_list

\* The keyword arguments of one add_edge call (lines 51-60).
EdgeAttrs(distance, mode) ==
    LET params == transport_modes[mode]
    IN  [mode     |-> mode,
         distance |-> distance,
         time     |-> (distance * 60) \div params.speed_kmh,
         cost     |-> distance * params.cost_per_km]

\* The loop over the catalog, lines 50-61: one add_edge per mode, from the
\* k-th mode on.
RECURSIVE AddModes(_, _, _, _, _)
AddModes(graph, u, v, distance, k) ==
    IF k > Len(ModeOrder) THEN graph
    ELSE LET g == add_edge(graph, u, v, EdgeAttrs(distance, ModeOrder[k]))
         IN  \* (the test has TLC evaluate g before the next step)
             IF g.nodes # <<>> THEN AddModes(g, u, v, distance, k + 1) ELSE g

\* The loops over the pairs of locations, lines 43-47, flattened: step k is
\* (i, j).
RECURSIVE BuildGraph(_, _, _)
BuildGraph(locations, k, graph) ==
    LET n == Len(locations)
        i == (k \div n) + 1
        j == (k % n) + 1
    IN  IF k >= n * n THEN graph
        ELSE IF i = j THEN BuildGraph(locations, k + 1, graph)
        ELSE LET g == AddModes(graph, locations[i].name, locations[j].name,
                          calculate_distance(locations[i], locations[j]), 1)
             IN  IF g.nodes # <<>> THEN BuildGraph(locations, k + 1, g) ELSE g

create_travel_graph(stop_list, start) ==
    BuildGraph(Locations(stop_list, start), 0, EmptyGraph)

\* ---- _calculate_optimal_path

\* The weight of money in the score (line 84): score = time + cost * 10.
\* With cost in half units the model compares 2 * score.
ScoreWeight == 10

\* line 82, second conjunct: the pair's cost still fits the budget.
WithinBudgetIgnoringSpent(cost, spent, limit) == cost <= limit

WithinBudgetAlways(cost, spent, limit) == TRUE

WithinBudgetStrict(cost, spent, limit) == cost + spent < limit

WithinBudget(cost, spent, limit) == cost + spent <= limit

ScoreCostOnly(data) == data.cost * ScoreWeight

\* line 84
Score(data) == 2 * data.time + data.cost * ScoreWeight

\* Lines 75-88: the two nested loops over remaining_nodes (in the set's
\* iteration order) and the catalog's modes, step k being (next_node, mode).
\* best is [found, score, next, mode]; the result adds error, TRUE when
\* edge_data[mode] raised KeyError.
NoBest == [found |-> FALSE, score |-> 0, next |-> "", mode |-> ""]

RECURSIVE ScanPairs(_, _, _, _, _, _, _)
ScanPairs(graph, current, order, spent, limit, k, best) ==
    LET m == Len(ModeOrder)
        next_node == order[(k \div m) + 1]
        mode == ModeOrder[(k % m) + 1]
        edge_data == graph.adj[<<current, next_node>>]
        score == Score(edge_data[mode])
    IN  IF k >= Len(order) * m THEN [error |-> FALSE, best |-> best]
        ELSE IF ~HasEdge(graph, current, next_node) \/ DOMAIN edge_data = {}
        THEN ScanPairs(graph, current, order, spent, limit, k + 1, best)
        ELSE IF mode \notin DOMAIN edge_data
        THEN [error |-> TRUE, best |-> best]
        ELSE IF WithinBudget(edge_data[mode].cost, spent, limit)
                /\ (~best.found \/ score < best.score)
        THEN ScanPairs(graph, current, order, spent, limit, k + 1,
                 [found |-> TRUE, score |-> score,
                  next |-> next_node, mode |-> mode])
        ELSE ScanPairs(graph, current, order, spent, limit, k + 1, best)

remove_nothing(S, x) == S

\* remaining_nodes.remove(best_next), line 103
remove(S, x) == S \ {x}

\* lines 93-99
PathSegment(graph, current, best_next, best_mode) ==
    [from |-> current,
     to   |-> best_next,
     mode |-> best_mode,
     time |-> graph.adj[<<current, best_next>>][best_mode].time,
     cost |-> graph.adj[<<current, best_next>>][best_mode].cost]

\* ---- _assign_time_slots

\* line 124
stop_duration == 60

\* lines 114-115
to_minutes(t) == t.hour * 60 + t.minute

\* _minutes_to_time: "none" when datetime.time accepts hour and minute, else
\* the exception it raises (a float argument, or an hour outside 0..23).
minutes_to_time_error(minutes, is_float) ==
    IF is_float THEN "TypeError"
    ELSE IF minutes \div 60 \notin 0..23 THEN "ValueError"
    ELSE "none"

minutes_to_time(minutes) == Time(minutes \div 60, minutes % 60)

FitsWithoutVisit(clock, limit) == clock <= limit

\* line 126
Fits(clock, limit) == clock + stop_duration <= limit

\* lines 127-134: the keyword arguments the scheduler gives ItineraryStop.
StopFieldsGiven ==
    {"location", "start_time", "end_time", "travel_time_to_next",
     "travel_method_to_next", "cost"}

\* segment['to'] is a node name (a str), not a Location.
StopLocationIsModel == FALSE

ScheduledStop(segment, clock) ==
    [location              |-> segment.to,
     start_time            |-> minutes_to_time(clock),
     end_time              |-> minutes_to_time(clock + stop_duration),
     travel_time_to_next   |-> segment.time,
     travel_method_to_next |-> segment.mode,
     cost                  |-> segment.cost]

\* The exception raised while building the stop of lines 127-134, "none" if
\* none: the two time conversions are evaluated first, then the constructor.
StopError(clock, is_float) ==
    IF minutes_to_time_error(clock, is_float) # "none"
    THEN minutes_to_time_error(clock, is_float)
    ELSE IF minutes_to_time_error(clock + stop_duration, is_float) # "none"
    THEN minutes_to_time_error(clock + stop_duration, is_float)
    ELSE IF ~ItineraryStopAccepts(StopFieldsGiven, StopLocationIsModel)
    THEN "ValidationError"
    ELSE "none"

\* ---- _calculate_total_cost
RECURSIVE SumCost(_)
SumCost(items) ==
    IF items = <<>> THEN 0 ELSE items[1].cost + SumCost(Tail(items))

calculate_total_cost(stop_list) == SumCost(stop_list)

\* ---- itinerary_generation.py

\* _generate_attractions: whatever the language model answers, the method
\* returns the empty list (line 82).
generate_attractions(town, wishes, user_preferences) == <<>>

\* _create_optimized_stops (line 99)
create_optimized_stops(found, start, window_start, window_end, limit) == <<>>

\* Itinerary(...), lines 38-49 (user_id and date are passed through and left
\* out here).
Itinerary(town, window_start, window_end, limit, stop_list) ==
    [city             |-> town,
     start_time       |-> window_start,
     end_time         |-> window_end,
     budget           |-> limit,
     stops            |-> stop_list,
     total_cost       |-> SumCost(stop_list),
     weather_forecast |-> <<>>,
     news_alerts      |-> <<>>]

\* Neo4jClient.store_itinerary: the query creates an Itinerary node for each
\* User node it matches and returns its id; result.single() is None when no
\* row came back, and None['itinerary_id'] raises TypeError (line 66).
store_itinerary_error(user_exists) ==
    IF user_exists THEN "none" ELSE "TypeError"

\* ---- user_interaction.py

\* What a message can mention.
Mentions == {"city", "date", "budget", "preferences", "start", "end"}

\* _extract_travel_info: the keys of info.  A start or an end time alone
\* sets both start_time and end_time (lines 76-79).
extract_travel_info(mentions) ==
    (mentions \cap {"city", "date", "budget", "preferences"})
        \cup (IF mentions \cap {"start", "end"} # {}
              THEN {"start_time", "end_time"} ELSE {})

\* _determine_next_required_info: the fields asked for, in order, with the
\* key of current_info each one stands for.
RequiredInfo ==
    <<"city", "date", "budget", "interests", "start_time", "end_time">>

InfoKey(field) == IF field = "interests" THEN "preferences" ELSE field

determine_next_required_info(current_info) ==
    LET Missing(field) == InfoKey(field) \notin current_info
    IN  SelectSeq(RequiredInfo, Missing)

\* _generate_response_message: which message is returned.
generate_response_message(info, needed_info, existing_preferences) ==
    IF info = {} THEN "greeting"
    ELSE IF "city" \notin info THEN "ask_city"
    ELSE IF "date" \notin info THEN "ask_date"
    ELSE IF "budget" \notin info THEN "ask_budget"
    ELSE IF "preferences" \notin info /\ existing_preferences = {}
    THEN "ask_interests"
    ELSE IF Len(needed_info) = 0 THEN "perfect"
    ELSE "need_details"

\* _generate_response, lines 128-131: the merged info.
merge_info(passed_context, info) ==
    IF passed_context # {} THEN passed_context \cup info ELSE info

\* ---- the inputs of the calls

SeqsUpTo(S, n) == UNION {[1..k -> S] : k \in 0..n}

\* optimize_route: locations on a 3-4-5 rectangle; two of them share a name.
LocationPool ==
    {Location("A", 0, 0), Location("B", 3, 0), Location("C", 3, 4),
     Location("B", 0, 4)}

StopLists == SeqsUpTo(LocationPool, MaxStops)

StartingPoints == {<<>>} \cup {<<l>> : l \in LocationPool}

Budgets == -1..MaxBudget

BudgetPairs == {b \in [Runs -> Budgets] : b[1] <= b[2]}

RouteBudgetPairs ==
    {b \in BudgetPairs : b[1] \in {-1, 0} /\ b[2] \in {0, MaxBudget}}

RouteWindows == {<<Time(9, 0), Time(18, 0)>>, <<Time(9, 30), Time(9, 0)>>}

Windows ==
    {<<s, e>> : s \in {Time(9, 0), Time(9, 30)},
                e \in {Time(9, 0), Time(10, 15), Time(11, 30), Time(18, 0)}}

\* _calculate_optimal_path: graphs over three nodes.  An edge of length d has
\* either the attributes _create_travel_graph leaves on it ("builder"), or one
\* entry per mode of the catalog ("by_mode"), each hop costing fare on top.
NodeNames == <<"A", "B", "C", "D", "E">>

GraphNodes == SubSeq(NodeNames, 1, 3)

GraphEdges == {<<"A", "B">>, <<"A", "C">>, <<"B", "C">>}

ByModeData(d, fare) ==
    [m \in Range(ModeOrder) |->
        [distance |-> d,
         time     |-> (d * 60) \div transport_modes[m].speed_kmh,
         cost     |-> d * transport_modes[m].cost_per_km + fare]]

BuilderData(d) ==
    LET m == ModeOrder[Len(ModeOrder)]
    IN  [mode     |-> m,
         distance |-> d,
         time     |-> (d * 60) \div transport_modes[m].speed_kmh,
         cost     |-> d * transport_modes[m].cost_per_km]

\* dist[e] = 0: no edge e.
InputGraph(shape, fare, dist) ==
    LET present == {e \in GraphEdges : dist[e] > 0}
        both == present \cup {<<e[2], e[1]>> : e \in present}
        len(p) == IF p \in GraphEdges THEN dist[p] ELSE dist[<<p[2], p[1]>>]
    IN  [nodes |-> GraphNodes,
         adj   |-> [p \in both |->
                      IF shape = "by_mode" THEN ByModeData(len(p), fare)
                      ELSE BuilderData(len(p))]]

InputGraphs ==
    {InputGraph("by_mode", f, d) :
        f \in 0..MaxFare, d \in [GraphEdges -> 0..MaxDist]}
    \cup {InputGraph("builder", 0, d) : d \in [GraphEdges -> 0..MaxDist]}

\* _assign_time_slots: paths A -> B -> C ..., each hop of some length and mode.
InputSegment(k, d, m) ==
    [from |-> NodeNames[k],
     to   |-> NodeNames[k + 1],
     mode |-> m,
     time |-> ByModeData(d, 0)[m].time,
     cost |-> ByModeData(d, 0)[m].cost]

InputPaths ==
    {[k \in 1..n |-> InputSegment(k, c[k][1], c[k][2])] :
        n \in 0..MaxPath,
        c \in [1..MaxPath -> (0..MaxDist) \X {"walking", "taxi"}]}

\* The example request: start A, stops B and C on one line, A-B = 2,
\* B-C = 3, A-C = 5, a budget of 100 and the window 09:00-18:00; and the
\* graph with one entry per mode over the same distances.
ScenarioStart == <<Location("A", 0, 0)>>

ScenarioStops == <<Location("B", 2, 0), Location("C", 5, 0)>>

ScenarioBudget == 2 * 100

ScenarioGraph ==
    InputGraph("by_mode", 0,
        (<<"A", "B">> :> 2) @@ (<<"A", "C">> :> 5) @@ (<<"B", "C">> :> 3))

\* ---- the state before a call

InitLocals ==
    /\ raised = [r \in Runs |-> "none"]
    /\ hash_order = [r \in Runs |-> <<>>]
    /\ current_node = [r \in Runs |-> ""]
    /\ remaining_nodes = [r \in Runs |-> {}]
    /\ current_cost = [r \in Runs |-> 0]
    /\ current_time = [r \in Runs |-> 0]
    /\ end_minutes = [r \in Runs |-> 0]
    /\ segment_index = [r \in Runs |-> 0]
    /\ scheduled_stops = [r \in Runs |-> <<>>]
    /\ total_cost = [r \in Runs |-> 0]
    /\ db_itineraries = <<>>
    /\ attractions = [r \in Runs |-> <<>>]
    /\ optimized_stops = [r \in Runs |-> <<>>]
    /\ itinerary = [r \in Runs |-> <<>>]
    /\ context = {}
    /\ extracted_info = {}
    /\ next_required_info = <<>>
    /\ response_message = ""
    /\ turn = 0

\* no request to the other two agents, an empty database
NoAssistant ==
    /\ city = ""
    /\ interests = <<>>
    /\ db_user = FALSE
    /\ db_preferences = {}

InitRoute ==
    /\ entry = "optimize_route"
    /\ stops \in StopLists
    /\ starting_point \in StartingPoints
    /\ \E w \in RouteWindows : start_time = w[1] /\ end_time = w[2]
    /\ time_is_float = TRUE
    /\ budget \in RouteBudgetPairs
    /\ pc = [r \in Runs |-> "create_travel_graph"]
    /\ G = [r \in Runs |-> EmptyGraph]
    /\ optimal_path = [r \in Runs |-> <<>>]

InitPath ==
    /\ entry = "calculate_optimal_path"
    /\ stops = <<>>
    /\ starting_point = <<>>
    /\ start_time = Time(9, 0)
    /\ end_time = Time(18, 0)
    /\ time_is_float = TRUE
    /\ \E b \in Budgets : budget = [r \in Runs |-> b]
    /\ pc = [r \in Runs |-> "calculate_optimal_path"]
    /\ \E g \in InputGraphs : G = [r \in Runs |-> g]
    /\ optimal_path = [r \in Runs |-> <<>>]

InitSlots ==
    /\ entry = "assign_time_slots"
    /\ stops = <<>>
    /\ starting_point = <<>>
    /\ \E w \in Windows : start_time = w[1] /\ end_time = w[2]
    /\ time_is_float \in BOOLEAN
    /\ budget = [r \in Runs |-> 0]
    /\ pc = [r \in Runs |-> "assign_time_slots"]
    /\ G = [r \in Runs |-> EmptyGraph]
    /\ \E p \in InputPaths : optimal_path = [r \in Runs |-> p]

InitScenarioRoute ==
    /\ entry = "optimize_route"
    /\ stops = ScenarioStops
    /\ starting_point = ScenarioStart
    /\ start_time = Time(9, 0)
    /\ end_time = Time(18, 0)
    /\ time_is_float = TRUE
    /\ budget = [r \in Runs |-> ScenarioBudget]
    /\ pc = [r \in Runs |-> "create_travel_graph"]
    /\ G = [r \in Runs |-> EmptyGraph]
    /\ optimal_path = [r \in Runs |-> <<>>]

InitScenarioPath ==
    /\ entry = "calculate_optimal_path"
    /\ stops = <<>>
    /\ starting_point = <<>>
    /\ start_time = Time(9, 0)
    /\ end_time = Time(18, 0)
    /\ time_is_float = TRUE
    /\ budget = [r \in Runs |-> ScenarioBudget]
    /\ pc = [r \in Runs |-> "calculate_optimal_path"]
    /\ G = [r \in Runs |-> ScenarioGraph]
    /\ optimal_path = [r \in Runs |-> <<>>]

\* no call of the optimizer
NoOptimizer ==
    /\ stops = <<>>
    /\ time_is_float = FALSE
    /\ G = [r \in Runs |-> EmptyGraph]
    /\ optimal_path = [r \in Runs |-> <<>>]

InitGenerate ==
    /\ entry = "generate_itinerary"
    /\ NoOptimizer
    /\ starting_point \in {<<>>, <<Location("A", 0, 0)>>}
    /\ \E w \in RouteWindows : start_time = w[1] /\ end_time = w[2]
    /\ \E b \in {-1, MaxBudget} : budget = [r \in Runs |-> b]
    /\ pc = [r \in Runs |-> "generate_attractions"]
    /\ city \in {"Rome", "Paris"}
    /\ interests \in {<<>>, <<"food">>}
    /\ db_user \in BOOLEAN
    /\ db_preferences \in SUBSET {"food"}
    /\ db_preferences # {} => db_user

InitChat ==
    /\ entry = "process_user_input"
    /\ NoOptimizer
    /\ starting_point = <<>>
    /\ start_time = Time(9, 0)
    /\ end_time = Time(18, 0)
    /\ budget = [r \in Runs |-> 0]
    /\ pc = [r \in Runs |-> "idle"]
    /\ city = ""
    /\ interests = <<>>
    /\ db_user \in BOOLEAN
    /\ db_preferences \in SUBSET {"food"}
    /\ db_preferences # {} => db_user

Init ==
    /\ InitLocals
    /\ \/ NoAssistant /\ (InitRoute \/ InitPath \/ InitSlots
                             \/ InitScenarioRoute \/ InitScenarioPath)
       \/ InitGenerate
       \/ InitChat

\* ---- the steps of a call

\* (the graph kept on the agent, one for every call)
CreateTravelGraphOnAgent(r) ==
    /\ pc[r] = "create_travel_graph"
    /\ G' = [q \in Runs |-> create_travel_graph(stops, starting_point)]
    /\ pc' = [pc EXCEPT ![r] = "calculate_optimal_path"]
    /\ UNCHANGED <<assistant, inputs, raised, optimal_path, path_locals, slot_locals,
                   total_cost>>

\* optimize_route line 24
CreateTravelGraph(r) ==
    /\ pc[r] = "create_travel_graph"
    /\ G' = [G EXCEPT ![r] = create_travel_graph(stops, starting_point)]
    /\ pc' = [pc EXCEPT ![r] = "calculate_optimal_path"]
    /\ UNCHANGED <<assistant, inputs, raised, optimal_path, path_locals, slot_locals,
                   total_cost>>

\* _calculate_optimal_path lines 67-72; nodes[0] raises IndexError on a graph
\* without nodes.  The set remaining_nodes gets its iteration order here.
CalculateOptimalPathStart(r) ==
    LET nodes == G[r].nodes
        rest == IF nodes = <<>> THEN {} ELSE Range(Tail(nodes))
    IN  /\ pc[r] = "calculate_optimal_path"
        /\ \E order \in Perms(rest) :
              hash_order' = [hash_order EXCEPT ![r] = order]
        /\ IF nodes = <<>>
           THEN /\ pc' = [pc EXCEPT ![r] = "raised"]
                /\ raised' = [raised EXCEPT ![r] = "IndexError"]
                /\ UNCHANGED <<optimal_path, current_node, remaining_nodes,
                               current_cost>>
           ELSE /\ pc' = [pc EXCEPT ![r] = "path_loop"]
                /\ optimal_path' = [optimal_path EXCEPT ![r] = <<>>]
                /\ current_node' = [current_node EXCEPT ![r] = nodes[1]]
                /\ remaining_nodes' = [remaining_nodes EXCEPT ![r] = rest]
                /\ current_cost' = [current_cost EXCEPT ![r] = 0]
                /\ UNCHANGED raised
        /\ UNCHANGED <<assistant, inputs, G, slot_locals, total_cost>>

\* where a call goes when _calculate_optimal_path returns (lines 27-30)
AfterPath == IF entry = "optimize_route" THEN "assign_time_slots" ELSE "returned"

\* remaining_nodes in its iteration order
IterationOrder(r) ==
    LET In(n) == n \in remaining_nodes[r]
    IN  SelectSeq(hash_order[r], In)

\* One pass of the while loop, lines 74-103 (and the return of line 105).
CalculateOptimalPathLoop(r) ==
    LET scan == ScanPairs(G[r], current_node[r], IterationOrder(r),
                          current_cost[r], budget[r], 0, NoBest)
        best == scan.best
        segment == PathSegment(G[r], current_node[r], best.next, best.mode)
    IN  /\ pc[r] = "path_loop"
        /\ IF remaining_nodes[r] = {}
           THEN /\ pc' = [pc EXCEPT ![r] = AfterPath]
                /\ UNCHANGED <<raised, optimal_path, path_locals>>
           ELSE IF scan.error
           THEN /\ pc' = [pc EXCEPT ![r] = "raised"]
                /\ raised' = [raised EXCEPT ![r] = "KeyError"]
                /\ UNCHANGED <<optimal_path, path_locals>>
           ELSE IF ~best.found
           THEN /\ pc' = [pc EXCEPT ![r] = AfterPath]
                /\ UNCHANGED <<raised, optimal_path, path_locals>>
           ELSE /\ optimal_path' =
                       [optimal_path EXCEPT ![r] = Append(@, segment)]
                /\ current_cost' = [current_cost EXCEPT ![r] = @ + segment.cost]
                /\ current_node' = [current_node EXCEPT ![r] = best.next]
                /\ remaining_nodes' =
                       [remaining_nodes EXCEPT ![r] = remove(@, best.next)]
                /\ UNCHANGED <<pc, raised, hash_order>>
        /\ UNCHANGED <<assistant, inputs, G, slot_locals, total_cost>>

\* _assign_time_slots lines 114-117
AssignTimeSlotsStart(r) ==
    /\ pc[r] = "assign_time_slots"
    /\ current_time' = [current_time EXCEPT ![r] = to_minutes(start_time)]
    /\ end_minutes' = [end_minutes EXCEPT ![r] = to_minutes(end_time)]
    /\ scheduled_stops' = [scheduled_stops EXCEPT ![r] = <<>>]
    /\ segment_index' = [segment_index EXCEPT ![r] = 1]
    /\ pc' = [pc EXCEPT ![r] = "slots_loop"]
    /\ UNCHANGED <<assistant, inputs, raised, G, optimal_path, path_locals, total_cost>>

\* where a call goes when _assign_time_slots returns (lines 30-33)
AfterSlots ==
    IF entry = "optimize_route" THEN "calculate_total_cost" ELSE "returned"

\* One pass of the for loop, lines 119-138 (and the return of line 140).
AssignTimeSlotsLoop(r) ==
    LET path == optimal_path[r]
        segment == path[segment_index[r]]
        clock == current_time[r] + segment.time
        error == StopError(clock, time_is_float)
    IN  /\ pc[r] = "slots_loop"
        /\ IF segment_index[r] > Len(path)
           THEN /\ pc' = [pc EXCEPT ![r] = AfterSlots]
                /\ UNCHANGED <<raised, slot_locals>>
           ELSE IF ~Fits(clock, end_minutes[r])
           THEN /\ current_time' = [current_time EXCEPT ![r] = clock]
                /\ pc' = [pc EXCEPT ![r] = AfterSlots]
                /\ UNCHANGED <<raised, end_minutes, segment_index,
                               scheduled_stops>>
           ELSE IF error # "none"
           THEN /\ current_time' = [current_time EXCEPT ![r] = clock]
                /\ pc' = [pc EXCEPT ![r] = "raised"]
                /\ raised' = [raised EXCEPT ![r] = error]
                /\ UNCHANGED <<end_minutes, segment_index, scheduled_stops>>
           ELSE /\ scheduled_stops' =
                       [scheduled_stops EXCEPT
                           ![r] = Append(@, ScheduledStop(segment, clock))]
                /\ current_time' =
                       [current_time EXCEPT ![r] = clock + stop_duration]
                /\ segment_index' = [segment_index EXCEPT ![r] = @ + 1]
                /\ UNCHANGED <<pc, raised, end_minutes>>
        /\ UNCHANGED <<assistant, inputs, G, optimal_path, path_locals, total_cost>>

\* optimize_route lines 33-35
CalculateTotalCost(r) ==
    /\ pc[r] = "calculate_total_cost"
    /\ total_cost' =
           [total_cost EXCEPT ![r] = calculate_total_cost(scheduled_stops[r])]
    /\ pc' = [pc EXCEPT ![r] = "returned"]
    /\ UNCHANGED <<assistant, inputs, raised, G, optimal_path, path_locals, slot_locals>>

optimizer == <<raised, G, optimal_path, path_locals, slot_locals, total_cost>>

\* generate_itinerary lines 23-26
GenerateAttractions(r) ==
    /\ pc[r] = "generate_attractions"
    /\ attractions' =
           [attractions EXCEPT
               ![r] = generate_attractions(city, interests, db_preferences)]
    /\ pc' = [pc EXCEPT ![r] = "create_optimized_stops"]
    /\ UNCHANGED <<inputs, optimizer, city, interests, database,
                   optimized_stops, itinerary, chat>>

\* generate_itinerary lines 29-35
CreateOptimizedStops(r) ==
    /\ pc[r] = "create_optimized_stops"
    /\ optimized_stops' =
           [optimized_stops EXCEPT
               ![r] = create_optimized_stops(attractions[r], starting_point,
                                             start_time, end_time, budget[r])]
    /\ pc' = [pc EXCEPT ![r] = "build_itinerary"]
    /\ UNCHANGED <<inputs, optimizer, city, interests, database, attractions,
                   itinerary, chat>>

\* generate_itinerary lines 38-49
BuildItinerary(r) ==
    /\ pc[r] = "build_itinerary"
    /\ itinerary' =
           [itinerary EXCEPT
               ![r] = <<Itinerary(city, start_time, end_time, budget[r],
                                  optimized_stops[r])>>]
    /\ pc' = [pc EXCEPT ![r] = "store_itinerary"]
    /\ UNCHANGED <<inputs, optimizer, city, interests, database, attractions,
                   optimized_stops, chat>>

\* generate_itinerary lines 52-54
StoreItinerary(r) ==
    /\ pc[r] = "store_itinerary"
    /\ IF store_itinerary_error(db_user) # "none"
       THEN /\ pc' = [pc EXCEPT ![r] = "raised"]
            /\ raised' = [raised EXCEPT ![r] = store_itinerary_error(db_user)]
            /\ UNCHANGED db_itineraries
       ELSE /\ pc' = [pc EXCEPT ![r] = "returned"]
            /\ db_itineraries' =
                   Append(db_itineraries,
                          [city |-> itinerary[r][1].city,
                           budget |-> itinerary[r][1].budget])
            /\ UNCHANGED raised
    /\ UNCHANGED <<entry, stops, starting_point, start_time, end_time,
                   time_is_float, budget, G, optimal_path, path_locals,
                   slot_locals, total_cost, city, interests, db_user,
                   db_preferences, generate_locals, chat>>

\* One call of process_user_input (lines 27-50) on a message with the given
\* mentions; the caller keeps the response's context for the next call.
\* _store_interaction fails on the missing db.store_user_interaction and
\* swallows the error (lines 106-115).
ProcessUserInput ==
    /\ entry = "process_user_input"
    /\ turn < MaxTurns
    /\ \E mentions \in SUBSET Mentions :
          LET user_preferences == db_preferences
              info == extract_travel_info(mentions)
              next_required == determine_next_required_info(info)
              merged_info == merge_info(context, info)
          IN  /\ extracted_info' = info
              /\ IF "preferences" \in info
                 THEN /\ db_user' = TRUE
                      /\ db_preferences' = db_preferences \cup {"food"}
                 ELSE UNCHANGED <<db_user, db_preferences>>
              /\ next_required_info' = next_required
              /\ response_message' =
                     generate_response_message(merged_info, next_required,
                                               user_preferences)
              /\ context' = merged_info
    /\ turn' = turn + 1
    /\ UNCHANGED <<inputs, pc, optimizer, city, interests, db_itineraries,
                   generate_locals>>

Next ==
    \/ \E r \in Runs :
          \/ CreateTravelGraph(r)
          \/ CalculateOptimalPathStart(r)
          \/ CalculateOptimalPathLoop(r)
          \/ AssignTimeSlotsStart(r)
          \/ AssignTimeSlotsLoop(r)
          \/ CalculateTotalCost(r)
          \/ GenerateAttractions(r)
          \/ CreateOptimizedStops(r)
          \/ BuildItinerary(r)
          \/ StoreItinerary(r)
    \/ ProcessUserInput

Spec == Init /\ [][Next]_vars

\* ---- properties

Finished(r) == pc[r] \in {"returned", "raised"}

\* C1: whatever the graph and the budget, once _calculate_optimal_path has
\* committed a segment, the travel costs of the committed segments add up to
\* the running total current_cost, and that total is within the budget.
C1_BudgetNeverExceeded ==
    \A r \in Runs :
        (entry # "assign_time_slots" /\ optimal_path[r] # <<>>) =>
            /\ SumCost(optimal_path[r]) = current_cost[r]
            /\ SumCost(optimal_path[r]) <= budget[r]

\* a path of two paid hops that uses the budget up
C1_Witness ==
    \E r \in Runs :
        /\ entry = "calculate_optimal_path"
        /\ Len(optimal_path[r]) = 2
        /\ optimal_path[r][1].cost > 0
        /\ optimal_path[r][2].cost > 0
        /\ SumCost(optimal_path[r]) = budget[r]

\* The request of C4: at least one stop, unique names, budget >= 0, start < end.
ValidRequest(r) ==
    LET locations == Locations(stops, starting_point)
    IN  /\ Len(stops) >= 1
        /\ \A i, j \in DOMAIN locations :
              locations[i].name = locations[j].name => i = j
        /\ budget[r] >= 0
        /\ to_minutes(start_time) < to_minutes(end_time)

\* C4: on a valid request optimize_route never ends in an error.
C4_ValidRequestNeverRaises ==
    \A r \in Runs :
        (entry = "optimize_route" /\ ValidRequest(r)) => pc[r] # "raised"

\* C5: two calls of the path selector on the same graph with the same budget
\* return the same path (and end the same way).
C5_Deterministic ==
    (/\ entry = "calculate_optimal_path"
     /\ budget[1] = budget[2]
     /\ Finished(1)
     /\ Finished(2)) =>
        /\ optimal_path[1] = optimal_path[2]
        /\ raised[1] = raised[2]

\* The number of leading segments of path that fit the window (clock is the
\* time before the first of them).
RECURSIVE FittingPrefix(_, _, _)
FittingPrefix(path, clock, limit) ==
    IF path = <<>> THEN 0
    ELSE IF clock + path[1].time + 60 <= limit
    THEN 1 + FittingPrefix(Tail(path), clock + path[1].time + 60, limit)
    ELSE 0

\* C6: the scheduler commits exactly the segments before the first one that
\* does not fit: when it has ended, its stops are the destinations of that
\* prefix of the path, in order.
C6_HardCutoff ==
    \A r \in Runs :
        (entry = "assign_time_slots" /\ Finished(r)) =>
            LET n == FittingPrefix(optimal_path[r], to_minutes(start_time),
                                   to_minutes(end_time))
            IN  /\ Len(scheduled_stops[r]) = n
                /\ \A k \in 1..n :
                      scheduled_stops[r][k].location = optimal_path[r][k].to

\* No pair of an unvisited node and a mode fits the budget: every edge from
\* the current node to an unvisited node has, for every mode, a cost that
\* exceeds what is left.
NothingEligible(r) ==
    \A n \in remaining_nodes[r] :
        HasEdge(G[r], current_node[r], n) =>
            \A m \in Range(ModeOrder) :
                /\ m \in DOMAIN G[r].adj[<<current_node[r], n>>]
                /\ G[r].adj[<<current_node[r], n>>][m].cost + current_cost[r]
                       > budget[r]

\* C7: a step the selector takes when nodes remain and no pair is
\* budget-eligible is its normal return, with the committed segments as
\* they were.
C7_EarlyStopReturnsPartialPath ==
    [][\A r \in Runs :
          (/\ pc[r] = "path_loop"
           /\ remaining_nodes[r] # {}
           /\ NothingEligible(r)
           /\ <<pc[r], optimal_path[r], raised[r]>>'
                  # <<pc[r], optimal_path[r], raised[r]>>) =>
              /\ pc'[r] = AfterPath
              /\ raised'[r] = "none"
              /\ optimal_path'[r] = optimal_path[r]]_vars

\* the selector returned one segment and left a node unvisited
C7_Witness ==
    \E r \in Runs :
        /\ entry = "calculate_optimal_path"
        /\ pc[r] = "returned"
        /\ remaining_nodes[r] # {}
        /\ Len(optimal_path[r]) = 1
        /\ HasEdge(G[r], current_node[r], "C")
        /\ NothingEligible(r)

\* C9: the graph optimize_route builds has one node per location and, for
\* every two of them and every mode of the catalog, an entry retrievable by
\* that mode with the mode's distance, time and cost.
C9_OneEntryPerMode ==
    \A r \in Runs :
        (/\ entry = "optimize_route"
         /\ pc[r] # "create_travel_graph"
         /\ ValidRequest(r)) =>
            LET locations == Locations(stops, starting_point)
            IN  /\ Range(G[r].nodes) = {locations[i].name : i \in DOMAIN locations}
                /\ \A i, j \in DOMAIN locations :
                      i # j =>
                          LET a == locations[i].name
                              b == locations[j].name
                          IN  /\ HasEdge(G[r], a, b)
                              /\ \A m \in Range(ModeOrder) :
                                    /\ m \in DOMAIN G[r].adj[<<a, b>>]
                                    /\ G[r].adj[<<a, b>>][m].cost
                                           = EdgeAttrs(calculate_distance(
                                                 locations[i], locations[j]), m).cost

\* C10: for every two locations, the edge data the builder computes is the
\* same in both directions for every mode, and what the graph holds for
\* (a, b) is what it holds for (b, a).
C10_Symmetry ==
    \A r \in Runs :
        (entry = "optimize_route" /\ pc[r] # "create_travel_graph") =>
            LET locations == Locations(stops, starting_point)
            IN  \A i, j \in DOMAIN locations :
                    i # j =>
                        LET a == locations[i].name
                            b == locations[j].name
                            dab == calculate_distance(locations[i], locations[j])
                            dba == calculate_distance(locations[j], locations[i])
                        IN  /\ HasEdge(G[r], a, b)
                            /\ HasEdge(G[r], b, a)
                            /\ G[r].adj[<<a, b>>] = G[r].adj[<<b, a>>]
                            /\ \A m \in Range(ModeOrder) :
                                  EdgeAttrs(dab, m) = EdgeAttrs(dba, m)

\* a graph built over A, B and C, with the edge A-C of length 5
C10_Witness ==
    \E r \in Runs :
        /\ entry = "optimize_route"
        /\ pc[r] = "calculate_optimal_path"
        /\ Len(G[r].nodes) = 3
        /\ HasEdge(G[r], "A", "C")
        /\ G[r].adj[<<"A", "C">>].distance = 5
        /\ G[r].adj[<<"C", "A">>].distance = 5

\* C12: a call of the scheduler whose window is shorter than one visit
\* (end_time - start_time < 60 minutes, a reversed window included) never
\* ends in an error and never holds a stop, whatever the path.
C12_EmptyWindowReturnsNoStops ==
    \A r \in Runs :
        (/\ entry = "assign_time_slots"
         /\ to_minutes(end_time) - to_minutes(start_time) < 60) =>
            /\ pc[r] # "raised"
            /\ scheduled_stops[r] = <<>>

\* the scheduler returned from a path of two hops, the first of no travel
\* time, on the window 09:30-10:15
C12_Witness ==
    \E r \in Runs :
        /\ entry = "assign_time_slots"
        /\ start_time = Time(9, 30)
        /\ end_time = Time(10, 15)
        /\ Len(optimal_path[r]) = 2
        /\ optimal_path[r][1].time = 0
        /\ pc[r] = "returned"

\* Every edge of the graph carries, for every mode, a cost above zero, and
\* the first node has an edge.
AllPaid(r) ==
    /\ G[r].nodes # <<>>
    /\ \E p \in DOMAIN G[r].adj : p[1] = G[r].nodes[1]
    /\ \A p \in DOMAIN G[r].adj :
          \A m \in Range(ModeOrder) :
              /\ m \in DOMAIN G[r].adj[p]
              /\ G[r].adj[p][m].cost > 0

C14_ExampleScenario ==
    \A r \in Runs :
        (/\ entry = "optimize_route"
         /\ stops = ScenarioStops
         /\ starting_point = ScenarioStart
         /\ Finished(r)) =>
            /\ raised[r] = "none"
            /\ Len(scheduled_stops[r]) = 2
            /\ scheduled_stops[r][1].location = "B"
            /\ scheduled_stops[r][2].location = "C"
            /\ SumCost(optimal_path[r]) = 0
            /\ \A k \in 1..2 :
                  /\ to_minutes(start_time)
                         <= to_minutes(scheduled_stops[r][k].start_time)
                  /\ to_minutes(scheduled_stops[r][k].end_time)
                         <= to_minutes(end_time)

\* Two of the request's locations share a name and differ in coordinates.
AmbiguousNames ==
    LET locations == Locations(stops, starting_point)
    IN  \E i, j \in DOMAIN locations :
            /\ locations[i].name = locations[j].name
            /\ locations[i].coordinates # locations[j].coordinates

\* C15: when two locations of the request share a name and differ in
\* coordinates, building the graph ends in ValidationError and leaves no
\* graph.
C15_DuplicateNameRejected ==
    \A r \in Runs :
        (/\ entry = "optimize_route"
         /\ AmbiguousNames
         /\ pc[r] # "create_travel_graph") =>
            /\ raised[r] = "ValidationError"
            /\ G[r] = EmptyGraph

\* C16: a call with a negative budget ends in ValidationError (it never
\* returns, and never ends in another error).
C16_NegativeBudgetRejected ==
    \A r \in Runs :
        (/\ entry \in {"optimize_route", "calculate_optimal_path"}
         /\ budget[r] < 0
         /\ Finished(r)) =>
            raised[r] = "ValidationError"

\* C17: a call whose window has end_time <= start_time ends in
\* ValidationError (it never returns an empty schedule).
C17_ReversedWindowRejected ==
    \A r \in Runs :
        (/\ entry \in {"optimize_route", "assign_time_slots"}
         /\ to_minutes(end_time) <= to_minutes(start_time)
         /\ Finished(r)) =>
            raised[r] = "ValidationError"

\* What call r holds: its position, its outcome and its local variables.
CallState(r) ==
    <<pc[r], raised[r], G[r], hash_order[r], optimal_path[r], current_node[r],
      remaining_nodes[r], current_cost[r], current_time[r], end_minutes[r],
      segment_index[r], scheduled_stops[r], total_cost[r]>>

\* What call r hands back: how it ended, with its graph, path, schedule and
\* total.
CallResult(r) ==
    <<pc[r], raised[r], G[r], optimal_path[r], scheduled_stops[r],
      total_cost[r]>>

Eligible(r) ==
    {p \in remaining_nodes[r] \X Range(ModeOrder) :
        /\ HasEdge(G[r], current_node[r], p[1])
        /\ p[2] \in DOMAIN G[r].adj[<<current_node[r], p[1]>>]
        /\ G[r].adj[<<current_node[r], p[1]>>][p[2]].cost + current_cost[r]
               <= budget[r]}

\* twice the score of the pair (n, m): travel_time + 10 * travel_cost, the
\* cost being in half units
PairScore(r, n, m) ==
    2 * G[r].adj[<<current_node[r], n>>][m].time
        + 10 * G[r].adj[<<current_node[r], n>>][m].cost

\* C20: every segment the selector commits leaves the current node for an
\* eligible (node, mode) pair, carries that pair's time and cost, and no
\* eligible pair has a smaller score.
C20_GreedyChoice ==
    [][\A r \in Runs :
          (/\ entry = "calculate_optimal_path"
           /\ Len(optimal_path'[r]) > Len(optimal_path[r])) =>
              LET seg == optimal_path'[r][Len(optimal_path'[r])]
              IN  /\ seg.from = current_node[r]
                  /\ <<seg.to, seg.mode>> \in Eligible(r)
                  /\ seg.cost
                         = G[r].adj[<<current_node[r], seg.to>>][seg.mode].cost
                  /\ \A p \in Eligible(r) :
                        PairScore(r, seg.to, seg.mode)
                            <= PairScore(r, p[1], p[2])]_vars

\* the selector took public transport while the budget lasted and walked the
\* second hop
C20_Witness ==
    \E r \in Runs :
        /\ entry = "calculate_optimal_path"
        /\ Len(optimal_path[r]) = 2
        /\ optimal_path[r][1].mode = "public_transport"
        /\ optimal_path[r][2].mode = "walking"
        /\ optimal_path[r][2].time > 0

\* C21: when the scheduler builds the stop of a segment, the stop is the
\* last one so far, so the constructor is given neither travel_time_to_next
\* nor travel_method_to_next (they are recorded on the previous stop).
C21_NextHopOnPreviousStop ==
    \A r \in Runs :
        (entry = "assign_time_slots" /\ raised[r] = "ValidationError") =>
            {"travel_time_to_next", "travel_method_to_next"}
                \cap StopFieldsGiven = {}

\* The graph of call r has every edge among its nodes, each with an entry
\* per mode.
CompleteByMode(r) ==
    \A u, v \in Range(G[r].nodes) :
        u # v =>
            /\ HasEdge(G[r], u, v)
            /\ \A m \in Range(ModeOrder) : m \in DOMAIN G[r].adj[<<u, v>>]

\* The selector stopped, or stands, with nodes left and no pair eligible.
BudgetBlocks(r) == remaining_nodes[r] # {} /\ NothingEligible(r)

\* C22: in optimize_route the selector starts at the starting point when one
\* is given; and on a complete graph, a path returned without the budget
\* having blocked a step starts at the first node and has one segment per
\* other node, each visited once.
C22_VisitsEveryNode ==
    \A r \in Runs :
        /\ (/\ entry = "optimize_route"
            /\ starting_point # <<>>
            /\ pc[r] = "path_loop"
            /\ optimal_path[r] = <<>>) =>
              current_node[r] = starting_point[1].name
        /\ (/\ entry = "calculate_optimal_path"
            /\ CompleteByMode(r)
            /\ pc[r] = "returned"
            /\ ~BudgetBlocks(r)) =>
              /\ Len(optimal_path[r]) = Len(G[r].nodes) - 1
              /\ optimal_path[r][1].from = G[r].nodes[1]
              /\ {optimal_path[r][k].to : k \in DOMAIN optimal_path[r]}
                     = Range(Tail(G[r].nodes))

\* the selector returned a path over both other nodes with money to spare
C22_Witness ==
    \E r \in Runs :
        /\ entry = "calculate_optimal_path"
        /\ CompleteByMode(r)
        /\ pc[r] = "returned"
        /\ Len(optimal_path[r]) = 2
        /\ current_cost[r] < budget[r]

\* C23: while the selector loops, committed segments and remaining nodes
\* add up to the number of non-start nodes, and every pass of the loop
\* either leaves the loop or removes exactly one node from the remaining
\* set: at most one pass per non-start node, then the return.
C23_LoopBounded ==
    /\ [](\A r \in Runs :
            (entry # "assign_time_slots" /\ pc[r] = "path_loop") =>
                Len(optimal_path[r]) + Cardinality(remaining_nodes[r])
                    = Len(G[r].nodes) - 1)
    /\ [][\A r \in Runs :
            (pc[r] = "path_loop" /\ CallState(r)' # CallState(r)) =>
                \/ pc'[r] # "path_loop"
                \/ /\ remaining_nodes'[r] \subseteq remaining_nodes[r]
                   /\ Cardinality(remaining_nodes'[r])
                          = Cardinality(remaining_nodes[r]) - 1]_vars

\* the loop has run once per non-start node and is about to return
C23_Witness ==
    \E r \in Runs :
        /\ entry = "calculate_optimal_path"
        /\ pc[r] = "path_loop"
        /\ remaining_nodes[r] = {}
        /\ Len(optimal_path[r]) = 2

\* C24: the selector's path is a simple chain from the first node: the
\* first segment leaves it, each later segment leaves where the previous
\* one arrived, no node is arrived at twice, and the first node never.
C24_SimpleChain ==
    \A r \in Runs :
        (entry = "calculate_optimal_path" /\ optimal_path[r] # <<>>) =>
            LET p == optimal_path[r]
            IN  /\ p[1].from = G[r].nodes[1]
                /\ \A k \in 2..Len(p) : p[k].from = p[k - 1].to
                /\ \A j, k \in DOMAIN p : p[j].to = p[k].to => j = k
                /\ \A k \in DOMAIN p : p[k].to # G[r].nodes[1]

\* the selector returned the chain A -> C -> B
C24_Witness ==
    \E r \in Runs :
        /\ entry = "calculate_optimal_path"
        /\ pc[r] = "returned"
        /\ Len(optimal_path[r]) = 2
        /\ optimal_path[r][1].to = "C"
        /\ optimal_path[r][2].to = "B"

\* C25: in optimize_route without a starting point, the selector starts at
\* the first candidate stop, that stop is never the destination of a
\* segment nor the location of a Scheduled Stop, and with n >= 1 candidates
\* at most n - 1 stops are scheduled.
C25_FirstStopIsOrigin ==
    \A r \in Runs :
        (entry = "optimize_route" /\ starting_point = <<>> /\ stops # <<>>) =>
            /\ (pc[r] = "path_loop" /\ optimal_path[r] = <<>>) =>
                  current_node[r] = stops[1].name
            /\ \A k \in DOMAIN optimal_path[r] :
                  optimal_path[r][k].to # stops[1].name
            /\ \A k \in DOMAIN scheduled_stops[r] :
                  scheduled_stops[r][k].location # stops[1].name
            /\ Len(scheduled_stops[r]) <= Len(stops) - 1

\* the selector stands at the first of two differently named candidates
C25_Witness ==
    \E r \in Runs :
        /\ entry = "optimize_route"
        /\ starting_point = <<>>
        /\ Len(stops) = 2
        /\ stops[1].name # stops[2].name
        /\ pc[r] = "path_loop"
        /\ current_node[r] = stops[1].name

\* The graph of call r is complete and every entry costs what the built-in
\* catalog charges for its distance.
CatalogGraph(r) ==
    /\ CompleteByMode(r)
    /\ \A u, v \in Range(G[r].nodes) :
          u # v =>
              \A m \in Range(ModeOrder) :
                  G[r].adj[<<u, v>>][m].cost
                      = EdgeAttrs(G[r].adj[<<u, v>>][m].distance, m).cost

\* C27: on a complete graph priced by the built-in catalog and with a budget
\* >= 0, the selector never raises, always finds an eligible pair while
\* nodes remain, and returns one segment per non-start node.
C27_NeverStopsEarly ==
    \A r \in Runs :
        (/\ entry = "calculate_optimal_path"
         /\ CatalogGraph(r)
         /\ budget[r] >= 0) =>
            /\ pc[r] # "raised"
            /\ ~BudgetBlocks(r)
            /\ pc[r] = "returned" =>
                  /\ remaining_nodes[r] = {}
                  /\ Len(optimal_path[r]) = Len(G[r].nodes) - 1

\* with a budget of 0 the selector walked both hops
C27_Witness ==
    \E r \in Runs :
        /\ entry = "calculate_optimal_path"
        /\ CatalogGraph(r)
        /\ budget[r] = 0
        /\ pc[r] = "returned"
        /\ Len(optimal_path[r]) = 2
        /\ \A k \in 1..2 : optimal_path[r][k].mode = "walking"

\* C30: with no candidate stop, or one location in all, optimize_route
\* returns an empty list of stops and a total of 0.
C30_SingleLocationReturnsEmpty ==
    \A r \in Runs :
        (/\ entry = "optimize_route"
         /\ Len(Locations(stops, starting_point)) <= 1
         /\ Finished(r)) =>
            /\ pc[r] = "returned"
            /\ scheduled_stops[r] = <<>>
            /\ total_cost[r] = 0

\* C28: every call of generate_itinerary ends by returning an Itinerary with
\* no stops, total_cost 0, an empty weather_forecast and no news_alerts; the
\* database holds one Itinerary node per call that returned; and the call
\* never touched the route optimizer (no graph, no path).
C28_GenerateReturnsEmptyItinerary ==
    entry = "generate_itinerary" =>
        /\ Len(db_itineraries) = Cardinality({r \in Runs : pc[r] = "returned"})
        /\ \A r \in Runs :
              /\ G[r] = EmptyGraph
              /\ optimal_path[r] = <<>>
              /\ Finished(r) =>
                    /\ pc[r] = "returned"
                    /\ Len(itinerary[r]) = 1
                    /\ itinerary[r][1].stops = <<>>
                    /\ itinerary[r][1].total_cost = 0
                    /\ itinerary[r][1].weather_forecast = <<>>
                    /\ itinerary[r][1].news_alerts = <<>>

\* The keys a complete request has.
AllInfo == {"city", "date", "budget", "preferences", "start_time", "end_time"}

\* C29: in every turn of a chat, no field whose key is in the context
\* passed to process_user_input is listed in the response's
\* next_required_info, and the response is the completion message whenever
\* the context and the message together hold every field.
C29_ContextCarriesFields ==
    [][entry = "process_user_input" =>
          /\ \A k \in 1..Len(next_required_info') :
                InfoKey(next_required_info'[k]) \notin context
          /\ AllInfo \subseteq (context \cup extracted_info') =>
                response_message' = "perfect"]_vars

====
